---- MODULE Spec2Model ----
(***************************************************************************)
(* mcp-atlassian: the tool registry and dispatch router of server.py.      *)
(*                                                                         *)
(*   get_available_services  the capability detector (environment -> which *)
(*                           service is configured)                        *)
(*   server_lifespan         builds the AppContext (one optional handle    *)
(*                           per service)                                  *)
(*   list_tools              the catalog for (context, read-only flag)     *)
(*   call_tool               the router: one branch per tool name          *)
(*                                                                         *)
(* A text is a sequence of string pieces (the pieces of the f-string or    *)
(* literal that builds it); "the text contains s" is "s is one of its      *)
(* pieces".  An argument value is a tagged record: S(x) a string, N(i) a   *)
(* number, None the absent value.                                          *)
(***************************************************************************)
EXTENDS Integers, Sequences, FiniteSets, TLC

VARIABLES
    env,        \* os.environ: per service, the URL class and the credentials set
    restricted, \* what is_read_only_mode() returns (READ_ONLY_MODE)
    pc,         \* "boot" before server_lifespan has yielded, "serving" after
    ctx,        \* AppContext: per service, whether the handle is present
    started,    \* what server_lifespan did: the detector's report and, per
                \* service, how the construction of its handle went
    catalogs,   \* the latest list_tools responses, oldest first
    last,       \* the call_tool request in flight with its response, or NoCall
    conns       \* per SSE connection, the call_tool request its task is
                \* serving: how far the dispatch has got, and its response

vars == <<env, restricted, pc, ctx, started, catalogs, last, conns>>

(***************************************************************************)
(* Bounds of the model.                                                    *)
(***************************************************************************)
\* How many list_tools responses are kept for comparison.
KeptCatalogs == 2
\* How many names outside the registry are tried.
UnknownNames == 2

Services == {"confluence", "jira"}

(***************************************************************************)
(* The environment.                                                        *)
(***************************************************************************)
\* One service's variables: <SVC>_URL (unset, or set and classified by
\* is_atlassian_cloud_url), and whether each credential variable is a
\* non-empty string.
EnvRec ==
    [url : {"unset", "cloud", "server"},
     username : BOOLEAN, api_token : BOOLEAN, personal_token : BOOLEAN]

EnvStates == [Services -> EnvRec]

\* is_atlassian_cloud_url(url), for a URL that is set.
is_atlassian_cloud_url(e) == e.url = "cloud"

\* is_read_only_mode(): the process-wide flag.
is_read_only_mode(flag) == flag

(***************************************************************************)
(* get_available_services                                                  *)
(***************************************************************************)
confluence_is_setup_CloudTakesToken(e) ==
    IF e.url # "unset"
    THEN e.personal_token \/ (e.username /\ e.api_token)
    ELSE FALSE

confluence_is_setup(e) ==
    IF e.url # "unset"
    THEN IF is_atlassian_cloud_url(e)
         THEN e.url # "unset" /\ e.username /\ e.api_token
         ELSE e.url # "unset"
              /\ (e.personal_token \/ (e.username /\ e.api_token))
    ELSE FALSE

jira_is_setup_UrlNotTested(e) ==
    IF is_atlassian_cloud_url(e) THEN e.username /\ e.api_token
    ELSE e.personal_token

jira_is_setup_EitherCredential(e) ==
    IF e.url # "unset"
    THEN IF is_atlassian_cloud_url(e)
         THEN e.username /\ e.api_token
         ELSE e.personal_token \/ (e.username /\ e.api_token)
    ELSE FALSE

jira_is_setup(e) ==
    IF e.url # "unset"
    THEN IF is_atlassian_cloud_url(e)
         THEN e.url # "unset" /\ e.username /\ e.api_token
         ELSE e.url # "unset" /\ e.personal_token
    ELSE FALSE

get_available_services(ev) ==
    [confluence |-> confluence_is_setup(ev["confluence"]),
     jira |-> jira_is_setup(ev["jira"])]

(***************************************************************************)
(* server_lifespan: a handle is built for each service the detector        *)
(* reports; from_env() or the fetcher's constructor may raise (built[s]    *)
(* false), which is logged and leaves that handle None.                    *)
(***************************************************************************)
server_lifespan_OneTry(ev, built) ==
    LET services == get_available_services(ev)
    IN  [confluence |-> services["confluence"] /\ built["confluence"],
         jira |-> /\ services["jira"] /\ built["jira"]
                  /\ services["confluence"] => built["confluence"]]

server_lifespan(ev, built) ==
    LET services == get_available_services(ev)
    IN  [confluence |-> services["confluence"] /\ built["confluence"],
         jira |-> services["jira"] /\ built["jira"]]

\* How each "if services[...]: try: ... except Exception" block went: not
\* entered ("skipped"), left with the fetcher assigned ("ok"), or left
\* through its except clause ("failed").
Construction(ev, built) ==
    LET services == get_available_services(ev)
    IN  [s \in Services |->
            IF ~services[s] THEN "skipped"
            ELSE IF built[s] THEN "ok" ELSE "failed"]

(***************************************************************************)
(* list_tools                                                              *)
(***************************************************************************)
\* tools.extend([...]) under "Always add read operations" (Confluence).
ConfluenceReadBlock ==
    <<"confluence_search", "confluence_get_page",
      "confluence_get_page_children", "confluence_get_page_ancestors",
      "confluence_get_comments">>

\* tools.extend([...]) under "if not read_only" (Confluence).
ConfluenceWriteBlock ==
    <<"confluence_create_page", "confluence_update_page",
      "confluence_delete_page">>

\* tools.extend([...]) under "Always add read operations" (Jira).
JiraReadBlock ==
    <<"jira_get_issue", "jira_search", "jira_search_fields",
      "jira_get_project_issues", "jira_get_epic_issues",
      "jira_get_transitions", "jira_get_worklog",
      "jira_download_attachments", "jira_get_agile_boards",
      "jira_get_board_issues", "jira_get_sprints_from_board",
      "jira_create_sprint", "jira_get_sprint_issues", "jira_update_sprint">>

\* tools.extend([...]) under "if not read_only" (Jira).
JiraWriteBlock ==
    <<"jira_create_issue", "jira_batch_create_issues", "jira_update_issue",
      "jira_delete_issue", "jira_add_comment", "jira_add_worklog",
      "jira_link_to_epic", "jira_create_issue_link",
      "jira_remove_issue_link", "jira_get_link_types",
      "jira_transition_issue">>

ConfluenceTools(c, ro) ==
    IF c["confluence"]
    THEN ConfluenceReadBlock \o (IF ~ro THEN ConfluenceWriteBlock ELSE <<>>)
    ELSE <<>>

JiraTools(c, ro) ==
    IF c["jira"]
    THEN JiraReadBlock \o (IF ~ro THEN JiraWriteBlock ELSE <<>>)
    ELSE <<>>

list_tools_JiraFirst(c, flag) ==
    LET read_only == is_read_only_mode(flag)
    IN  JiraTools(c, read_only) \o ConfluenceTools(c, read_only)

list_tools(c, flag) ==
    LET read_only == is_read_only_mode(flag)
    IN  ConfluenceTools(c, read_only) \o JiraTools(c, read_only)

(***************************************************************************)
(* Values, argument mappings and texts.                                    *)
(***************************************************************************)
None == [none |-> TRUE]
S(pieces) == [s |-> pieces]
N(i) == [n |-> i]
L(items) == [l |-> items]
B(b) == [b |-> b]

IsNone(v) == "none" \in DOMAIN v
IsStr(v) == "s" \in DOMAIN v
IsNum(v) == "n" \in DOMAIN v
IsList(v) == "l" \in DOMAIN v
IsBool(v) == "b" \in DOMAIN v

\* Python truthiness of a value.
Truthy(v) ==
    IF IsNone(v) THEN FALSE
    ELSE IF IsStr(v) THEN v.s # <<>>
    ELSE IF IsNum(v) THEN v.n # 0
    ELSE IF IsBool(v) THEN v.b
    ELSE IF "o" \in DOMAIN v THEN DOMAIN v.o # {}
    ELSE v.l # <<>>

\* "piece in text" for one of the pieces the model distinguishes.
Contains(text, piece) == \E i \in 1..Len(text) : text[i] = piece

\* The arguments of a call: a mapping, or something with no .get (None).
NotMapping == [mapping |-> FALSE, kv |-> <<>>]
Mapping(f) == [mapping |-> TRUE, kv |-> f]

\* arguments.get(k, d)
Get(a, k, d) == IF k \in DOMAIN a.kv THEN a.kv[k] ELSE d

\* The decimal strings the model uses, with their values.
Decimal == ("5" :> 5) @@ ("1000" :> 1000)

\* int(v) succeeds on a number and on a decimal string.
IntOk(v) == IsNum(v) \/ (IsStr(v) /\ Len(v.s) = 1 /\ v.s[1] \in DOMAIN Decimal)
IntOf(v) == IF IsNum(v) THEN v.n ELSE Decimal[v.s[1]]
Min(x, y) == IF x < y THEN x ELSE y

\* The strings json.loads accepts (any other string raises JSONDecodeError).
JsonObject == <<"{\"customfield_10010\": \"x\"}">>
JsonArray == <<"[{\"project_key\": \"P\", \"summary\": \"s\", \"issue_type\": \"Task\"}]">>
JsonValid(v) == IsStr(v) /\ v.s \in {JsonObject, JsonArray}

\* json.loads(text) of those strings: a dict, or a list of one dict.
O(fields) == [o |-> fields]
JsonLoads(text) ==
    IF text = JsonArray
    THEN L(<<O([project_key |-> "P", summary |-> "s", issue_type |-> "Task"])>>)
    ELSE O([customfield_10010 |-> "x"])

\* What a branch of call_tool ends with: a returned text block, or an
\* exception with str(e) = text; invoked lists the backend operations called.
Ret(text, inv) == [raised |-> FALSE, text |-> text, invoked |-> inv]
Raise(text, inv) == [raised |-> TRUE, text |-> text, invoked |-> inv]

\* TextContent(type="text", text=t)
TextContent(t) == [type |-> "text", text |-> t]

\* TextContent("...") with the text given positionally: the pydantic model
\* takes keyword arguments only, so the constructor raises TypeError.
PositionalTextContentError ==
    <<"BaseModel.__init__() takes 1 positional argument but 2 were given">>

ReadOnlyText(name) ==
    <<"Operation '", name, "' is ", "not available in read-only mode", ".">>

TextContent_positional(text, inv) == Raise(PositionalTextContentError, inv)

(***************************************************************************)
(* call_tool: what each branch is made of.                                 *)
(***************************************************************************)
Registered ==
    {"confluence_search", "confluence_get_page",
     "confluence_get_page_children", "confluence_get_page_ancestors",
     "confluence_get_comments", "confluence_create_page",
     "confluence_update_page", "confluence_delete_page",
     "jira_get_issue", "jira_search", "jira_search_fields",
     "jira_get_project_issues", "jira_get_epic_issues",
     "jira_get_transitions", "jira_get_worklog",
     "jira_download_attachments", "jira_get_agile_boards",
     "jira_get_board_issues", "jira_get_sprints_from_board",
     "jira_create_sprint", "jira_get_sprint_issues", "jira_update_sprint",
     "jira_create_issue", "jira_batch_create_issues", "jira_update_issue",
     "jira_delete_issue", "jira_add_comment", "jira_add_worklog",
     "jira_link_to_epic", "jira_transition_issue",
     "jira_create_issue_link", "jira_remove_issue_link",
     "jira_get_link_types"}

\* The handle a branch uses (ctx.confluence or ctx.jira).
ServiceOf(name) ==
    IF name \in {"confluence_search", "confluence_get_page",
                 "confluence_get_page_children",
                 "confluence_get_page_ancestors", "confluence_get_comments",
                 "confluence_create_page", "confluence_update_page",
                 "confluence_delete_page"}
    THEN "confluence" ELSE "jira"

\* The branches whose elif also tests the handle:
\*   elif name == "..." and ctx and ctx.<service>:
HandleInCondition ==
    {"confluence_search", "confluence_get_page",
     "confluence_get_page_children", "confluence_get_page_ancestors",
     "confluence_get_comments", "jira_search_fields",
     "jira_get_project_issues", "jira_update_sprint",
     "jira_batch_create_issues"}

\* The read-only test made in the two sprint-writing branches as well.
ReadOnlyChecked_SprintsToo ==
    {"confluence_create_page", "confluence_update_page",
     "confluence_delete_page", "jira_create_sprint", "jira_update_sprint",
     "jira_create_issue",
     "jira_batch_create_issues", "jira_update_issue", "jira_delete_issue",
     "jira_add_comment", "jira_add_worklog", "jira_link_to_epic",
     "jira_transition_issue", "jira_create_issue_link",
     "jira_remove_issue_link"}

\* The branches that open with "if read_only: return [TextContent(...)]".
ReadOnlyChecked ==
    {"confluence_create_page", "confluence_update_page",
     "confluence_delete_page", "jira_create_issue",
     "jira_batch_create_issues", "jira_update_issue", "jira_delete_issue",
     "jira_add_comment", "jira_add_worklog", "jira_link_to_epic",
     "jira_transition_issue", "jira_create_issue_link",
     "jira_remove_issue_link"}

\* The backend method each branch calls.
BackendOp ==
    [name \in Registered |->
        CASE name = "confluence_search" -> "search"
          [] name = "confluence_get_page" -> "get_page_content"
          [] name = "confluence_get_page_children" -> "get_page_children"
          [] name = "confluence_get_page_ancestors" -> "get_page_ancestors"
          [] name = "confluence_get_comments" -> "get_page_comments"
          [] name = "confluence_create_page" -> "create_page"
          [] name = "confluence_update_page" -> "update_page"
          [] name = "confluence_delete_page" -> "delete_page"
          [] name = "jira_get_issue" -> "get_issue"
          [] name = "jira_search" -> "search_issues"
          [] name = "jira_search_fields" -> "search_fields"
          [] name = "jira_get_project_issues" -> "get_project_issues"
          [] name = "jira_get_epic_issues" -> "get_epic_issues"
          [] name = "jira_get_transitions" -> "get_available_transitions"
          [] name = "jira_get_worklog" -> "get_worklogs"
          [] name = "jira_download_attachments" -> "download_issue_attachments"
          [] name = "jira_get_agile_boards" -> "get_all_agile_boards_model"
          [] name = "jira_get_board_issues" -> "get_board_issues"
          [] name = "jira_get_sprints_from_board"
                -> "get_all_sprints_from_board_model"
          [] name = "jira_create_sprint" -> "create_sprint"
          [] name = "jira_get_sprint_issues" -> "get_sprint_issues"
          [] name = "jira_update_sprint" -> "update_sprint"
          [] name = "jira_create_issue" -> "create_issue"
          [] name = "jira_batch_create_issues" -> "batch_create_issues"
          [] name = "jira_update_issue" -> "update_issue"
          [] name = "jira_delete_issue" -> "delete_issue"
          [] name = "jira_add_comment" -> "add_comment"
          [] name = "jira_add_worklog" -> "add_worklog"
          [] name = "jira_link_to_epic" -> "link_issue_to_epic"
          [] name = "jira_transition_issue" -> "transition_issue"
          [] name = "jira_create_issue_link" -> "create_issue_link"
          [] name = "jira_remove_issue_link" -> "remove_issue_link"
          [] name = "jira_get_link_types" -> "get_issue_link_types"]

\* The backend methods that change remote state (create, update, delete,
\* add, link, transition); every other one only reads.
MutatingOps ==
    {"create_page", "update_page", "delete_page", "create_sprint",
     "update_sprint", "create_issue", "batch_create_issues", "update_issue",
     "delete_issue", "add_comment", "add_worklog", "link_issue_to_epic",
     "transition_issue", "create_issue_link", "remove_issue_link"}

Mutating(name) == name \in Registered /\ BackendOp[name] \in MutatingOps

\* int(arguments.get(field, default)) conversions of a branch, in the
\* order the branch makes them: <<field, default, maximum or 0>>.
IntFields(name) ==
    CASE name = "confluence_search" -> << <<"limit", 10, 50>> >>
      [] name = "confluence_get_page_children" -> << <<"limit", 25, 50>> >>
      [] name = "jira_search" -> << <<"limit", 10, 50>>, <<"startAt", 0, 0>> >>
      [] name = "jira_search_fields" -> << <<"limit", 10, 0>> >>
      [] name \in {"jira_get_project_issues", "jira_get_epic_issues"}
            -> << <<"limit", 10, 50>>, <<"startAt", 0, 0>> >>
      [] name \in {"jira_get_agile_boards", "jira_get_board_issues",
                   "jira_get_sprints_from_board", "jira_get_sprint_issues"}
            -> << <<"startAt", 0, 0>>, <<"limit", 10, 50>> >>
      [] OTHER -> <<>>

\* "if not x: raise ValueError(...)" checks of a branch, in order:
\* <<the fields tested together, the message>>.
RequiredChecks(name) ==
    CASE name = "confluence_update_page"
            -> << <<{"page_id", "title", "content"},
                    <<"Missing required parameters: ", "page_id", ", ", "title",
                      ", and ", "content", " are required.">> >> >>
      [] name = "confluence_delete_page"
            -> << <<{"page_id"},
                    <<"Missing required parameter: ", "page_id",
                      " is required.">> >> >>
      [] name = "jira_download_attachments"
            -> << <<{"issue_key"},
                    <<"Missing required parameter: ", "issue_key">> >>,
                  <<{"target_dir"},
                    <<"Missing required parameter: ", "target_dir">> >> >>
      [] name = "jira_transition_issue"
            -> << <<{"issue_key"}, <<"issue_key", " is required">> >>,
                  <<{"transition_id"}, <<"transition_id", " is required">> >> >>
      [] name = "jira_create_issue_link"
            -> << <<{"link_type"}, <<"link_type", " is required">> >>,
                  <<{"inward_issue_key"}, <<"inward_issue_key", " is required">> >>,
                  <<{"outward_issue_key"}, <<"outward_issue_key", " is required">> >> >>
      [] name = "jira_remove_issue_link"
            -> << <<{"link_id"}, <<"link_id", " is required">> >> >>
      [] OTHER -> <<>>

\* json.loads(arguments.get(field)) of a branch, in order; the parse is
\* made when the value is truthy (for issues: truthy and a str).
JsonFields(name) ==
    CASE name = "jira_create_issue" -> <<"additional_fields">>
      [] name = "jira_batch_create_issues" -> <<"issues">>
      [] name = "jira_update_issue" -> <<"fields", "additional_fields">>
      [] name = "jira_transition_issue" -> <<"fields">>
      [] OTHER -> <<>>

\* The default of the "fields" argument of jira_get_issue and jira_search.
IssueFields ==
    <<"summary,description,status,assignee,reporter,labels,priority,created,updated,issuetype">>

\* The other arguments.get(field, default) reads of the branches that call
\* a reading backend method, for the arguments the inputSchema does not
\* require and the branch passes on to the backend: <<field, default>>
\* (None where .get is given no default).
OptionalReads(name) ==
    CASE name = "confluence_get_page"
            -> << <<"convert_to_markdown", B(TRUE)>> >>
      [] name = "confluence_get_page_children"
            -> << <<"expand", S(<<"version">>)>>,
                  <<"convert_to_markdown", B(TRUE)>>, <<"start", N(0)>> >>
      [] name = "jira_get_issue"
            -> << <<"fields", S(IssueFields)>>, <<"expand", None>>,
                  <<"comment_limit", N(10)>>, <<"properties", None>>,
                  <<"update_history", B(TRUE)>> >>
      [] name = "jira_search"
            -> << <<"fields", S(IssueFields)>>, <<"projects_filter", None>> >>
      [] name = "jira_search_fields" -> << <<"keyword", None>> >>
      [] name = "jira_get_agile_boards"
            -> << <<"board_name", None>>, <<"project_key", None>>,
                  <<"board_type", None>> >>
      [] name = "jira_get_board_issues"
            -> << <<"fields", S(<<"*all">>)>>, <<"expand", S(<<"version">>)>> >>
      [] name = "jira_get_sprints_from_board"
            -> << <<"board_id", None>>, <<"state", S(<<"active">>)>> >>
      [] name = "jira_get_sprint_issues" -> << <<"fields", S(<<"*all">>)>> >>
      [] OTHER -> <<>>

\* list_tools, inputSchema: the properties a reading tool does not require,
\* each with its declared "default" (None where none is declared, or where
\* the declared default is None).
SchemaOptional(name) ==
    CASE name = "confluence_search"
            -> [limit |-> N(10), spaces_filter |-> None]
      [] name = "confluence_get_page"
            -> [include_metadata |-> B(TRUE), convert_to_markdown |-> B(TRUE)]
      [] name = "confluence_get_page_children"
            -> [expand |-> S(<<"version">>), limit |-> N(25),
                include_content |-> B(FALSE)]
      [] name = "jira_get_issue"
            -> [fields |-> S(IssueFields), expand |-> None,
                comment_limit |-> N(10), properties |-> None,
                update_history |-> B(TRUE)]
      [] name = "jira_search"
            -> [fields |-> S(IssueFields), limit |-> N(10),
                startAt |-> N(0), projects_filter |-> None]
      [] name = "jira_search_fields"
            -> [keyword |-> S(<<>>), limit |-> N(10), refresh |-> B(FALSE)]
      [] name \in {"jira_get_project_issues", "jira_get_epic_issues"}
            -> [limit |-> N(10), startAt |-> N(0)]
      [] name = "jira_get_agile_boards"
            -> [board_name |-> None, project_key |-> None,
                board_type |-> None, startAt |-> N(0), limit |-> N(10)]
      [] name = "jira_get_board_issues"
            -> [fields |-> S(<<"*all">>), startAt |-> N(0), limit |-> N(10),
                expand |-> S(<<"version">>)]
      [] name = "jira_get_sprints_from_board"
            -> [board_id |-> None, state |-> None, startAt |-> N(0),
                limit |-> N(10)]
      [] name = "jira_get_sprint_issues"
            -> [fields |-> S(<<"*all">>), startAt |-> N(0), limit |-> N(10)]
      [] OTHER -> <<>>

\* list_tools, inputSchema: the "required" list of each tool (empty where
\* the schema has an empty list or no "required" key).
SchemaRequired(name) ==
    CASE name = "confluence_search" -> {"query"}
      [] name \in {"confluence_get_page", "confluence_get_page_ancestors",
                   "confluence_get_comments", "confluence_delete_page"}
            -> {"page_id"}
      [] name = "confluence_get_page_children" -> {"parent_id"}
      [] name = "confluence_create_page" -> {"space_key", "title", "content"}
      [] name = "confluence_update_page" -> {"page_id", "title", "content"}
      [] name \in {"jira_get_issue", "jira_get_transitions",
                   "jira_get_worklog", "jira_delete_issue"}
            -> {"issue_key"}
      [] name = "jira_search" -> {"jql"}
      [] name = "jira_get_project_issues" -> {"project_key"}
      [] name = "jira_get_epic_issues" -> {"epic_key"}
      [] name = "jira_download_attachments" -> {"issue_key", "target_dir"}
      [] name = "jira_get_board_issues" -> {"board_id", "jql"}
      [] name = "jira_create_sprint"
            -> {"board_id", "sprint_name", "start_date", "end_date"}
      [] name \in {"jira_get_sprint_issues", "jira_update_sprint"}
            -> {"sprint_id"}
      [] name = "jira_create_issue"
            -> {"project_key", "summary", "issue_type"}
      [] name = "jira_batch_create_issues" -> {"issues"}
      [] name = "jira_update_issue" -> {"issue_key", "fields"}
      [] name = "jira_add_comment" -> {"issue_key", "comment"}
      [] name = "jira_add_worklog" -> {"issue_key", "time_spent"}
      [] name = "jira_link_to_epic" -> {"issue_key", "epic_key"}
      [] name = "jira_create_issue_link"
            -> {"link_type", "inward_issue_key", "outward_issue_key"}
      [] name = "jira_remove_issue_link" -> {"link_id"}
      [] name = "jira_transition_issue" -> {"issue_key", "transition_id"}
      [] OTHER -> {}

\* list_tools, inputSchema: the properties declared with a "default" key.
SchemaDefaulted(name) ==
    CASE name \in {"confluence_update_page"}
            -> {"is_minor_edit", "version_comment"}
      [] name = "jira_create_issue"
            -> {"assignee", "description", "components", "additional_fields"}
      [] name = "jira_batch_create_issues" -> {"validate_only"}
      [] name = "jira_update_issue" -> {"additional_fields"}
      [] name = "jira_transition_issue" -> {"fields"}
      [] name = "confluence_search" -> {"limit"}
      [] name = "confluence_get_page"
            -> {"include_metadata", "convert_to_markdown"}
      [] name = "confluence_get_page_children"
            -> {"expand", "limit", "include_content"}
      [] name = "jira_get_issue"
            -> {"fields", "expand", "comment_limit", "properties",
                "update_history"}
      [] name = "jira_search" -> {"fields", "limit", "startAt"}
      [] name = "jira_search_fields" -> {"keyword", "limit", "refresh"}
      [] name \in {"jira_get_project_issues", "jira_get_epic_issues"}
            -> {"limit", "startAt"}
      [] name \in {"jira_get_agile_boards", "jira_get_sprints_from_board"}
            -> {"startAt", "limit"}
      [] name = "jira_get_board_issues"
            -> {"fields", "startAt", "limit", "expand"}
      [] name = "jira_get_sprint_issues" -> {"fields", "startAt", "limit"}
      [] OTHER -> {}

\* call_tool: the property a branch reads without a fallback and hands to
\* the backend method as the object to operate on ({} where the method
\* takes none).
BackendTarget(name) ==
    CASE name = "confluence_search" -> {"query"}
      [] name \in {"confluence_get_page", "confluence_get_page_ancestors",
                   "confluence_get_comments", "confluence_update_page",
                   "confluence_delete_page"}
            -> {"page_id"}
      [] name = "confluence_get_page_children" -> {"parent_id"}
      [] name = "confluence_create_page" -> {"space_key"}
      [] name \in {"jira_get_issue", "jira_get_transitions",
                   "jira_get_worklog", "jira_download_attachments",
                   "jira_update_issue", "jira_delete_issue",
                   "jira_add_comment", "jira_add_worklog",
                   "jira_link_to_epic", "jira_transition_issue"}
            -> {"issue_key"}
      [] name = "jira_search" -> {"jql"}
      [] name \in {"jira_get_project_issues", "jira_create_issue"}
            -> {"project_key"}
      [] name = "jira_get_epic_issues" -> {"epic_key"}
      [] name \in {"jira_get_board_issues", "jira_get_sprints_from_board",
                   "jira_create_sprint"}
            -> {"board_id"}
      [] name \in {"jira_get_sprint_issues", "jira_update_sprint"}
            -> {"sprint_id"}
      [] name = "jira_batch_create_issues" -> {"issues"}
      [] name = "jira_create_issue_link"
            -> {"inward_issue_key", "outward_issue_key"}
      [] name = "jira_remove_issue_link" -> {"link_id"}
      [] OTHER -> {}

\* list_tools, inputSchema: the "maximum" declared for "limit", or 0.
SchemaMaximum(name) ==
    IF name \in {"confluence_search", "confluence_get_page_children",
                 "jira_search", "jira_get_project_issues",
                 "jira_get_epic_issues", "jira_get_agile_boards",
                 "jira_get_board_issues", "jira_get_sprints_from_board",
                 "jira_get_sprint_issues"}
    THEN 50 ELSE 0

\* The branch reads arguments (arguments.get) before it calls the backend.
ReadsArguments(name) == name # "jira_get_link_types"

\* The branches that wrap the backend call in their own try/except.
LocalCatch ==
    {"confluence_get_page_children", "confluence_delete_page",
     "jira_update_issue", "jira_transition_issue", "jira_create_issue_link",
     "jira_remove_issue_link", "jira_get_link_types"}

\* The branches that dereference or iterate the backend's result, so that
\* a result of None raises (AttributeError or TypeError).
UsesResult ==
    Registered \ {"confluence_delete_page", "jira_search_fields",
                  "jira_get_worklog", "jira_download_attachments",
                  "jira_update_sprint", "jira_delete_issue",
                  "jira_add_comment", "jira_add_worklog",
                  "jira_transition_issue", "jira_create_issue_link",
                  "jira_remove_issue_link"}

(***************************************************************************)
(* call_tool: argument handling.                                           *)
(***************************************************************************)
\* str(e) of the exceptions the argument handling can raise.
NoGetText == <<"'NoneType' object has no attribute 'get'">>
BadIntText == <<"int() cannot convert the value">>
NotIterableText == <<"argument of type 'int' is not iterable">>
JsonTypeText == <<"the JSON object must be str, bytes or bytearray">>
NoneResultText == <<"'NoneType' object is not usable as a result">>
\* str(e) of an exception raised by a backend method: a rejected request
\* whose message quotes the server's reason, and a timeout.
BackendText == <<"401 Client Error: ", "\"", "Unauthorized", "\"">>
TimeoutText == <<"backend: request timed out">>

\* The first int() conversion of the branch that raises, or 0.
FirstBadInt(name, a) ==
    LET fs == IntFields(name)
        bad == {i \in 1..Len(fs) : ~IntOk(Get(a, fs[i][1], N(fs[i][2])))}
    IN  IF bad = {} THEN 0 ELSE CHOOSE i \in bad : \A j \in bad : i <= j

Coerced_Unclamped(name, a, field) ==
    LET fs == IntFields(name)
        i == CHOOSE k \in 1..Len(fs) : fs[k][1] = field
    IN  IntOf(Get(a, field, N(fs[i][2])))

\* min(int(arguments.get(field, default)), maximum), or without the min.
Coerced(name, a, field) ==
    LET fs == IntFields(name)
        i == CHOOSE k \in 1..Len(fs) : fs[k][1] = field
        v == IntOf(Get(a, field, N(fs[i][2])))
    IN  IF fs[i][3] = 0 THEN v ELSE Min(v, fs[i][3])

\* The first required check of the branch that raises, or 0.
FirstMissing(name, a) ==
    LET cs == RequiredChecks(name)
        bad == {i \in 1..Len(cs) :
                    \E f \in cs[i][1] : ~Truthy(Get(a, f, None))}
    IN  IF bad = {} THEN 0 ELSE CHOOSE i \in bad : \A j \in bad : i <= j

\* Whether the branch hands the field to json.loads.
Parsed(name, a, f) ==
    LET v == Get(a, f, None)
    IN  Truthy(v) /\ (name = "jira_batch_create_issues" => IsStr(v))

\* The first json.loads of the branch that raises, or 0.
FirstBadJson(name, a) ==
    LET js == JsonFields(name)
        bad == {i \in 1..Len(js) :
                    Parsed(name, a, js[i]) /\ ~JsonValid(Get(a, js[i], None))}
    IN  IF bad = {} THEN 0 ELSE CHOOSE i \in bad : \A j \in bad : i <= j

\* The attachments of jira_update_issue before the paths are validated:
\* a native list as it is; a string that is a JSON array, the array; a
\* string that is a JSON string, the one path in it; a string with a
\* comma, its parts split at "," and stripped of " "; any other string,
\* itself.
JsonPathArray == <<"[\"/tmp/a\", \"/tmp/b\"]">>
JsonPathString == <<"\"/tmp/a\"">>
AttachmentList(v) ==
    IF ~Truthy(v) THEN <<>>
    ELSE IF IsList(v) THEN v.l
    ELSE IF ~IsStr(v) THEN <<>>
    ELSE IF v.s = JsonPathArray THEN <<"/tmp/a", "/tmp/b">>
    ELSE IF v.s = JsonPathString THEN <<"/tmp/a">>
    ELSE IF Contains(v.s, ",")
         THEN SelectSeq(v.s, LAMBDA piece : piece \notin {",", " "})
    ELSE v.s

\* list.remove(x): the list without its first element equal to x.
RemoveFirst(seq, x) ==
    LET i == CHOOSE k \in 1..Len(seq) :
                 seq[k] = x /\ \A j \in 1..(k - 1) : seq[j] # x
    IN  SubSeq(seq, 1, i - 1) \o SubSeq(seq, i + 1, Len(seq))

\* The loop run over the list itself instead of a copy of it: the index
\* moves on while the list shrinks.
RECURSIVE ValidateInPlace(_, _, _)
ValidateInPlace(i, attachments, files) ==
    IF i > Len(attachments) THEN attachments
    ELSE ValidateInPlace(i + 1,
                         IF attachments[i] \in files THEN attachments
                         ELSE RemoveFirst(attachments, attachments[i]),
                         files)

ExistingPaths_NoCopy(paths, files) == ValidateInPlace(1, paths, files)

\* for path in attachments[:]:
\*     if not os.path.exists(path): attachments.remove(path)
RECURSIVE ValidatePaths(_, _, _)
ValidatePaths(copy, attachments, files) ==
    IF copy = <<>> THEN attachments
    ELSE ValidatePaths(Tail(copy),
                       IF Head(copy) \in files THEN attachments
                       ELSE RemoveFirst(attachments, Head(copy)),
                       files)

ExistingPaths(paths, files) == ValidatePaths(paths, paths, files)

\* confluence_get_page_children: "body.storage" is added to expand when
\* include_content is truthy and expand does not hold "body".
ChildrenExpand(a) ==
    LET expand == Get(a, "expand", S(<<"version">>))
        include_content == Get(a, "include_content", B(FALSE))
    IN  IF Truthy(include_content) /\ IsStr(expand)
           /\ ~Contains(expand.s, "body")
        THEN IF Truthy(expand) THEN S(expand.s \o <<",body.storage">>)
             ELSE S(<<"body.storage">>)
        ELSE expand

\* What the branch passes to the backend method, as far as the model
\* follows it: the coerced numbers and the optional arguments of a reading
\* branch, or the attachments of an update.
Forwarded(name, a, files) ==
    LET fs == IntFields(name)
        ints == [f \in {fs[i][1] : i \in 1..Len(fs)} |-> N(Coerced(name, a, f))]
        os == OptionalReads(name)
        opts == [f \in {os[i][1] : i \in 1..Len(os)} |->
                    LET i == CHOOSE k \in 1..Len(os) : os[k][1] = f
                    IN  IF name = "confluence_get_page_children"
                           /\ f = "expand"
                        THEN ChildrenExpand(a)
                        ELSE Get(a, f, os[i][2])]
        att == ExistingPaths(AttachmentList(Get(a, "attachments", None)), files)
        issues == Get(a, "issues", None)
    IN  IF name = "jira_update_issue" /\ att # <<>>
        THEN [attachments |-> L(att)]
        ELSE IF name = "jira_batch_create_issues"
        THEN [issues |-> IF Parsed(name, a, "issues")
                         THEN JsonLoads(issues.s) ELSE issues,
              validate_only |-> Get(a, "validate_only", B(FALSE))]
        ELSE ints @@ opts

Invocation(name, a, files) ==
    [op |-> BackendOp[name], fwd |-> Forwarded(name, a, files)]

(***************************************************************************)
(* call_tool: the backend call of a branch and what is made of its result. *)
(* A backend method returns a usable result ("ok"), returns None or False  *)
(* ("none"), or raises ("raise", "timeout"; "raise_id" is the             *)
(* transition-identifier type mismatch Jira reports).                      *)
(***************************************************************************)
Outcomes == {"ok", "none", "raise", "timeout", "raise_id"}

Raises(o) == o \in {"raise", "timeout", "raise_id"}

TransitionIdText == <<"'transition' identifier must be an integer">>

\* str(e) of the exception a raising backend method raises.
RaisedText(o) ==
    CASE o = "raise_id" -> TransitionIdText
      [] o = "timeout" -> TimeoutText
      [] OTHER -> BackendText

\* json.dumps of a string: the characters JSON escapes are escaped.
JsonEscape(e) == [i \in 1..Len(e) |-> IF e[i] = "\"" THEN "\\\"" ELSE e[i]]

\* The text a branch returns for the backend's result.
ResultText(name, o) ==
    CASE name = "confluence_create_page"
            -> <<"Page created successfully:\n", "{json}">>
      [] name = "jira_create_issue"
            -> <<"Issue created successfully:\n", "{json}">>
      [] name = "jira_update_issue"
            -> <<"Issue updated successfully:\n", "{json}">>
      [] name = "confluence_delete_page" /\ o = "none"
            -> <<"{json}", "Unable to delete page">>
      [] name = "jira_update_sprint" /\ o = "none"
            -> <<"{json}", "Failed to update sprint">>
      [] OTHER -> <<"{json}">>

\* An except clause that reports the failure without the exception's text.
CaughtText_NoMessage(name, e) ==
    CASE name = "confluence_get_page_children"
            -> <<"{json}", "Failed to get child pages: ">>
      [] name = "confluence_delete_page"
            -> <<"{json}", "Error deleting page ">>
      [] name = "jira_update_issue" -> <<"Error updating issue ">>
      [] name = "jira_transition_issue" -> <<"Error transitioning issue ">>
      [] name = "jira_create_issue_link" -> <<"Error creating issue link: ">>
      [] name = "jira_remove_issue_link" -> <<"Error removing issue link: ">>
      [] name = "jira_get_link_types"
            -> <<"Error getting issue link types: ">>

\* The text the branch's own except clause returns for exception text e.
CaughtText(name, e) ==
    CASE name = "confluence_get_page_children"
            -> <<"{json}", "Failed to get child pages: ">> \o JsonEscape(e)
      [] name = "confluence_delete_page"
            -> <<"{json}", "Error deleting page ">> \o JsonEscape(e)
      [] name = "jira_update_issue" -> <<"Error updating issue ">> \o e
      [] name = "jira_transition_issue"
            -> IF Contains(e, TransitionIdText[1])
               THEN <<"Error transitioning issue ",
                      "The Jira API requires transition IDs to be integers. ",
                      "Please use the numeric ID value from jira_get_transitions.">>
               ELSE <<"Error transitioning issue ">> \o e
      [] name = "jira_create_issue_link"
            -> <<"Error creating issue link: ">> \o e
      [] name = "jira_remove_issue_link"
            -> <<"Error removing issue link: ">> \o e
      [] name = "jira_get_link_types"
            -> <<"Error getting issue link types: ">> \o e

\* An exception with text e at a place the branch's try covers, if it has one.
Fault(name, e, inv) ==
    IF name \in LocalCatch THEN Ret(CaughtText(name, e), inv) ELSE Raise(e, inv)

\* One backend call with outcome o, and the result handling that follows.
Finish(name, o, inv) ==
    IF Raises(o) THEN Fault(name, RaisedText(o), inv)
    ELSE IF o = "none" /\ name \in UsesResult
    THEN Fault(name, NoneResultText, inv)
    ELSE Ret(ResultText(name, o), inv)

(***************************************************************************)
(* call_tool: the confluence_search branch.                                *)
(***************************************************************************)
QueryTokens_NoCurrentUser == {"=", "~", ">", "<", " AND ", " OR "}

QueryTokens == {"=", "~", ">", "<", " AND ", " OR ", "currentUser()"}

SiteSearch(q) == <<"siteSearch ~ \"">> \o q \o <<"\"">>
TextSearch_SiteSearchAgain(q) == <<"siteSearch ~ \"">> \o q \o <<"\"">>
TextSearch(q) == <<"text ~ \"">> \o q \o <<"\"">>

SearchCall(query, limit, a) ==
    [op |-> "search",
     fwd |-> [query |-> query, limit |-> N(limit),
              spaces_filter |-> Get(a, "spaces_filter", None)]]

\* A search that tries the site search again before it falls back.
confluence_search_Retrying(a, w) ==
    IF ~a.mapping THEN Raise(NoGetText, <<>>)
    ELSE IF FirstBadInt("confluence_search", a) # 0 THEN Raise(BadIntText, <<>>)
    ELSE
    LET query == Get(a, "query", S(<<>>))
        limit == Coerced("confluence_search", a, "limit")
    IN  IF Truthy(query) /\ ~IsStr(query) THEN Raise(NotIterableText, <<>>)
        ELSE IF Truthy(query)
                /\ ~\E x \in QueryTokens : Contains(query.s, x)
        THEN LET first == SearchCall(S(SiteSearch(query.s)), limit, a)
                 second == SearchCall(S(TextSearch(query.s)), limit, a)
             IN  IF Raises(w.beh[1])
                 THEN Finish("confluence_search", w.beh[2], <<first, first, second>>)
                 ELSE Finish("confluence_search", w.beh[1], <<first>>)
        ELSE Finish("confluence_search", w.beh[1],
                    <<SearchCall(query, limit, a)>>)

confluence_search(a, w) ==
    IF ~a.mapping THEN Raise(NoGetText, <<>>)
    ELSE IF FirstBadInt("confluence_search", a) # 0 THEN Raise(BadIntText, <<>>)
    ELSE
    LET query == Get(a, "query", S(<<>>))
        limit == Coerced("confluence_search", a, "limit")
    IN  IF Truthy(query) /\ ~IsStr(query) THEN Raise(NotIterableText, <<>>)
        ELSE IF Truthy(query)
                /\ ~\E x \in QueryTokens : Contains(query.s, x)
        THEN LET first == SearchCall(S(SiteSearch(query.s)), limit, a)
                 second == SearchCall(S(TextSearch(query.s)), limit, a)
             IN  IF Raises(w.beh[1])
                 THEN Finish("confluence_search", w.beh[2], <<first, second>>)
                 ELSE Finish("confluence_search", w.beh[1], <<first>>)
        ELSE Finish("confluence_search", w.beh[1],
                    <<SearchCall(query, limit, a)>>)

(***************************************************************************)
(* call_tool: every other branch, after its handle and read-only checks.   *)
(***************************************************************************)
NotAMappingText == <<"argument after ** must be a mapping">>

\* **fields / **additional_fields of a parsed value that is no JSON object.
SpreadsNonObject(name, a) ==
    /\ name \in {"jira_create_issue", "jira_update_issue"}
    /\ \E i \in 1..Len(JsonFields(name)) :
          /\ Parsed(name, a, JsonFields(name)[i])
          /\ Get(a, JsonFields(name)[i], None).s # JsonObject

Branch(name, a, w) ==
    IF name = "confluence_search" THEN confluence_search(a, w)
    ELSE IF ReadsArguments(name) /\ ~a.mapping THEN Raise(NoGetText, <<>>)
    ELSE IF FirstBadInt(name, a) # 0 THEN Raise(BadIntText, <<>>)
    ELSE IF FirstMissing(name, a) # 0
    THEN Raise(RequiredChecks(name)[FirstMissing(name, a)][2], <<>>)
    ELSE IF FirstBadJson(name, a) # 0
    THEN IF IsStr(Get(a, JsonFields(name)[FirstBadJson(name, a)], None))
         THEN Raise(<<"Invalid JSON in ",
                      JsonFields(name)[FirstBadJson(name, a)]>>, <<>>)
         ELSE Raise(JsonTypeText, <<>>)
    ELSE IF SpreadsNonObject(name, a) THEN Fault(name, NotAMappingText, <<>>)
    ELSE Finish(name, w.beh[1], <<Invocation(name, a, w.files)>>)

(***************************************************************************)
(* call_tool                                                               *)
(***************************************************************************)
NotConfiguredText(service) ==
    IF service = "confluence" THEN <<"Confluence is not configured.">>
    ELSE <<"Jira is not configured.">>

UnknownToolText(name) == <<"Unknown tool: ", name>>

\* The if/elif chain takes the branch of this name: the name is a branch's,
\* and the handle is present when the elif tests it too.
BranchTaken(name, c) ==
    /\ name \in Registered
    /\ name \in HandleInCondition => c[ServiceOf(name)]

\* The statement after the chain: raise ValueError(f"Unknown tool: {name}")
NoBranch_WrongName(name) == Raise(<<"Unknown tool: ", "tool">>, <<>>)

NoBranch(name) == Raise(UnknownToolText(name), <<>>)

\* The body of the try block.
Dispatch(name, a, c, read_only, w) ==
    IF BranchTaken(name, c)
    THEN IF ~c[ServiceOf(name)]
         THEN Raise(NotConfiguredText(ServiceOf(name)), <<>>)
         ELSE IF name \in ReadOnlyChecked /\ read_only
         THEN TextContent_positional(ReadOnlyText(name), <<>>)
         ELSE Branch(name, a, w)
    ELSE NoBranch(name)

Response(outcome, content, invoked) ==
    [outcome |-> outcome, content |-> content, invoked |-> invoked]

\* except Exception as e: return [TextContent(type="text", text=f"Error: {str(e)}")]
Caught_Escapes(r) == Response("raised", <<>>, r.invoked)

Caught_UnknownToolEscapes(r) ==
    IF r.text[1] = "Unknown tool: " THEN Response("raised", <<>>, r.invoked)
    ELSE Response("returned", <<TextContent(<<"Error: ">> \o r.text)>>,
                  r.invoked)

Caught(r) ==
    Response("returned", <<TextContent(<<"Error: ">> \o r.text)>>, r.invoked)

call_tool(name, arguments, c, flag, w) ==
    LET read_only == is_read_only_mode(flag)
        r == Dispatch(name, arguments, c, read_only, w)
    IN  IF r.raised THEN Caught(r)
        ELSE Response("returned", <<TextContent(r.text)>>, r.invoked)

(***************************************************************************)
(* The requests the model makes.                                           *)
(***************************************************************************)
OtherNames == <<"jira_get_issues", "confluence_search_pages", "", "search">>
Unregistered == {OtherNames[i] : i \in 1..UnknownNames}
Names == Registered \cup Unregistered

\* The fields of a branch that decide its control flow.
KeyFields(name) ==
    {IntFields(name)[i][1] : i \in 1..Len(IntFields(name))}
    \cup UNION {RequiredChecks(name)[i][1] : i \in 1..Len(RequiredChecks(name))}
    \cup {JsonFields(name)[i] : i \in 1..Len(JsonFields(name))}
    \cup (IF name = "confluence_search"
          THEN {"query", "spaces_filter"} ELSE {})
    \cup (IF name = "jira_update_issue" THEN {"attachments"} ELSE {})
    \cup (IF name = "confluence_get_page_children"
          THEN {"include_content"} ELSE {})

IsIntField(name, f) ==
    \E i \in 1..Len(IntFields(name)) : IntFields(name)[i][1] = f
IsJsonField(name, f) ==
    \E i \in 1..Len(JsonFields(name)) : JsonFields(name)[i] = f

\* A well-formed value of each key field.
GoodValue(name, f) ==
    IF IsIntField(name, f) THEN N(5)
    ELSE IF f = "issues" THEN S(JsonArray)
    ELSE IF IsJsonField(name, f) THEN S(JsonObject)
    ELSE IF f = "query" THEN S(<<"release notes">>)
    ELSE IF f = "attachments" THEN L(<<"/tmp/a", "/tmp/b">>)
    ELSE IF f = "include_content" THEN B(TRUE)
    ELSE S(<<"KEY-1">>)

\* A value of each key field that the branch cannot use, or must clamp.
OddValue(name, f, kind) ==
    IF IsIntField(name, f)
    THEN IF kind = "large" THEN S(<<"1000">>)
         ELSE IF kind = "number" THEN N(1000) ELSE S(<<"ten">>)
    ELSE IF IsJsonField(name, f)
    THEN IF kind = "large" THEN S(JsonArray)
         ELSE IF kind = "number" THEN GoodValue(name, f)
         ELSE S(<<"{not json">>)
    ELSE IF f = "query"
    THEN IF kind = "number" THEN GoodValue(name, f)
         ELSE S(<<"type", "=", "page">>)
    ELSE IF f = "attachments" THEN S(<<"/tmp/a", ",", " ", "/tmp/b">>)
    ELSE GoodValue(name, f)

\* The query texts tried on confluence_search: the empty text, free text
\* (also with a lower-case "and"), and one text around each operator.
QuerySpace ==
    {S(<<>>), S(<<"release notes">>), S(<<"cats", " and ", "dogs">>),
     S(<<"type", "=", "page">>), S(<<"title", "~", "roadmap">>),
     S(<<"created", ">", "2024-01-01">>), S(<<"created", "<", "2024-01-01">>),
     S(<<"label", " AND ", "space">>), S(<<"label", " OR ", "space">>),
     S(<<"creator", "currentUser()">>)}

\* The issues values tried on jira_batch_create_issues besides a JSON
\* array string and a malformed string: the empty string, a JSON object
\* string, and a native list.
IssuesSpace ==
    {S(<<>>), S(JsonObject), L(<<O([project_key |-> "P", summary |-> "s"])>>)}

\* The attachments values tried on jira_update_issue besides the list and
\* the comma-separated string of /tmp/a and /tmp/b: lists with paths that
\* never exist (/tmp/c, /tmp/d), next to each other and repeated, a JSON
\* array string, a JSON string, and a plain single path.
AttachmentSpace ==
    {L(<<"/tmp/c", "/tmp/d", "/tmp/a">>),
     L(<<"/tmp/c", "/tmp/b", "/tmp/c", "/tmp/a">>),
     S(JsonPathArray), S(JsonPathString), S(<<"/tmp/b">>)}

\* The values tried on each JSON-bearing field besides a JSON object
\* string, a JSON array string and a malformed string: the empty string and
\* a native dict.
JsonFieldSpace == {S(<<>>), O([priority |-> "High"])}

\* The well-formed values of the key fields that are not JSON-bearing.
PlainFields(name) ==
    [f \in {g \in KeyFields(name) : ~IsJsonField(name, g)} |->
        GoodValue(name, f)]

ArgSpace(name) ==
    (IF name \in {"jira_create_issue", "jira_update_issue",
                  "jira_transition_issue"}
     THEN {Mapping((f :> v) @@ PlainFields(name)) :
              f \in {JsonFields(name)[i] : i \in 1..Len(JsonFields(name))},
              v \in JsonFieldSpace}
     ELSE {})
    \cup
    (IF name = "jira_update_issue"
     THEN {Mapping([issue_key |-> S(<<"KEY-1">>), attachments |-> v]) :
              v \in AttachmentSpace}
     ELSE {})
    \cup
    (IF name = "confluence_search"
     THEN {Mapping([query |-> q]) : q \in QuerySpace} ELSE {})
    \cup
    (IF name = "jira_batch_create_issues"
     THEN {Mapping([issues |-> v]) : v \in IssuesSpace} ELSE {})
    \cup
    {NotMapping, Mapping(<<>>),
     Mapping([f \in KeyFields(name) |-> GoodValue(name, f)]),
     Mapping([f \in KeyFields(name) |-> OddValue(name, f, "large")]),
     Mapping([f \in KeyFields(name) |-> OddValue(name, f, "number")]),
     Mapping([f \in KeyFields(name) |-> OddValue(name, f, "bad")])}

\* What the world does during the call: the outcome of each backend call
\* the branch can make, and the attachment paths that exist on disk.
WorldSpace(name) ==
    [beh : IF name = "confluence_search"
           THEN [1..2 -> Outcomes \ {"raise_id"}]
           ELSE IF name = "jira_transition_issue" THEN [1..1 -> Outcomes]
           ELSE IF name \in Registered THEN [1..1 -> Outcomes \ {"raise_id"}]
           ELSE {<<"ok">>},
     files : IF name = "jira_update_issue"
             THEN SUBSET {"/tmp/a", "/tmp/b"} ELSE {{}}]

(***************************************************************************)
(* The state machine.                                                      *)
(***************************************************************************)
NoCall ==
    [name |-> "", arguments |-> NotMapping,
     world |-> [beh |-> <<>>, files |-> {}],
     outcome |-> "none", content |-> <<>>, invoked |-> <<>>]

\* The transport connections of the SSE server; handle_sse runs one
\* app.run task for each.
Connections == {"sse1", "sse2"}

\* A connection whose task is waiting for a request.
Idle ==
    [phase |-> "idle", name |-> "", arguments |-> NotMapping,
     world |-> [beh |-> <<>>, files |-> {}], done |-> 0,
     outcome |-> "none", content |-> <<>>, invoked |-> <<>>]

NoContext == [s \in Services |-> FALSE]
NotStarted ==
    [services |-> [s \in Services |-> FALSE],
     construction |-> [s \in Services |-> "skipped"]]

\* The environments the router is exercised under: per service, no
\* variable set, a cloud URL with username and API token, or a self-hosted
\* URL with a personal access token.
Unset ==
    [url |-> "unset", username |-> FALSE, api_token |-> FALSE,
     personal_token |-> FALSE]
CloudBasic ==
    [url |-> "cloud", username |-> TRUE, api_token |-> TRUE,
     personal_token |-> FALSE]
ServerToken ==
    [url |-> "server", username |-> FALSE, api_token |-> FALSE,
     personal_token |-> TRUE]
RouterEnvs == [Services -> {Unset, CloudBasic, ServerToken}]

InitWith(envs) ==
    /\ env \in envs
    /\ restricted \in BOOLEAN
    /\ pc = "boot"
    /\ ctx = NoContext
    /\ started = NotStarted
    /\ catalogs = <<>>
    /\ last = NoCall
    /\ conns = [k \in Connections |-> Idle]

Init == InitWith(RouterEnvs)
InitEnv == InitWith(EnvStates)
\* Both services configured, for the runs that follow several connections.
InitServe == InitWith({[s \in Services |-> CloudBasic]})

\* server_lifespan runs once and yields the context.
Startup ==
    /\ pc = "boot"
    /\ \E built \in [Services -> BOOLEAN] :
          /\ ctx' = server_lifespan(env, built)
          /\ started' = [services |-> get_available_services(env),
                         construction |-> Construction(env, built)]
    /\ pc' = "serving"
    /\ UNCHANGED <<env, restricted, catalogs, last, conns>>

Keep(seq, n) == IF Len(seq) > n THEN SubSeq(seq, Len(seq) - n + 1, Len(seq)) ELSE seq

\* A catalog request.
ListTools ==
    /\ pc = "serving"
    /\ catalogs' = Keep(Append(catalogs, list_tools(ctx, restricted)),
                        KeptCatalogs)
    /\ UNCHANGED <<env, restricted, pc, ctx, started, last, conns>>

\* A call_tool that leaves the context without its handles.
CallTool_DropsHandles ==
    /\ pc = "serving"
    /\ last = NoCall
    /\ \E name \in Names :
         \E arguments \in ArgSpace(name), w \in WorldSpace(name) :
            LET r == call_tool(name, arguments, ctx, restricted, w)
            IN  last' = [name |-> name, arguments |-> arguments, world |-> w,
                         outcome |-> r.outcome, content |-> r.content,
                         invoked |-> r.invoked]
    /\ ctx' = NoContext
    /\ UNCHANGED <<env, restricted, pc, started, catalogs, conns>>

\* A call request: the connection has no call in flight; the router runs
\* call_tool to its end.
CallTool ==
    /\ pc = "serving"
    /\ last = NoCall
    /\ \E name \in Names :
         \E arguments \in ArgSpace(name), w \in WorldSpace(name) :
            LET r == call_tool(name, arguments, ctx, restricted, w)
            IN  last' = [name |-> name, arguments |-> arguments, world |-> w,
                         outcome |-> r.outcome, content |-> r.content,
                         invoked |-> r.invoked]
    /\ UNCHANGED <<env, restricted, pc, ctx, started, catalogs, conns>>

\* The transport sends the response of the call to the client; the server
\* keeps nothing of it.
Reply ==
    /\ pc = "serving"
    /\ last # NoCall
    /\ last' = NoCall
    /\ UNCHANGED <<env, restricted, pc, ctx, started, catalogs, conns>>

(***************************************************************************)
(* Several connections.  call_tool has no await of its own: between two    *)
(* backend invocations, and from the last one to its return, the task runs *)
(* without yielding, so what other tasks can interleave with are the       *)
(* backend invocations of a dispatch.                                      *)
(***************************************************************************)
\* The requests followed on the connections.
ConnNames == {"confluence_search", "jira_get_issue"}
ConnArgs(name) ==
    {NotMapping, Mapping([f \in KeyFields(name) |-> GoodValue(name, f)])}
\* The backend is not reached without arguments: one world is enough.
ConnWorlds(name, arguments) ==
    IF arguments = NotMapping
    THEN {w \in WorldSpace(name) : \A i \in DOMAIN w.beh : w.beh[i] = "ok"}
    ELSE {w \in WorldSpace(name) : \A i \in DOMAIN w.beh : w.beh[i] # "none"}

\* What call_tool makes of the request of connection record c.
Dispatched(c) == call_tool(c.name, c.arguments, ctx, restricted, c.world)

\* A request arrives on connection k and its task enters call_tool.
Receive(k) ==
    /\ pc = "serving"
    /\ conns[k].phase = "idle"
    /\ \E name \in ConnNames :
         \E arguments \in ConnArgs(name) :
          \E w \in ConnWorlds(name, arguments) :
            conns' = [conns EXCEPT ![k] =
                        [Idle EXCEPT !.phase = "dispatching", !.name = name,
                                     !.arguments = arguments, !.world = w]]
    /\ UNCHANGED <<env, restricted, pc, ctx, started, catalogs, last>>

\* The next backend invocation of the dispatch on connection k is made and
\* returns or raises.
Invoke(k) ==
    /\ conns[k].phase = "dispatching"
    /\ conns[k].done < Len(Dispatched(conns[k]).invoked)
    /\ conns' = [conns EXCEPT
                   ![k].done = @ + 1,
                   ![k].invoked =
                       Append(@, Dispatched(conns[k]).invoked[conns[k].done + 1])]
    /\ UNCHANGED <<env, restricted, pc, ctx, started, catalogs, last>>

\* The connections other than k that have a request.
Busy(k) == {j \in Connections \ {k} : conns[j].phase # "idle"}

\* A dispatch that keeps the request in a place the tasks share: it answers
\* with the response to another connection's request when there is one.
Return_SharedRequest(k) ==
    /\ conns[k].phase = "dispatching"
    /\ conns[k].done = Len(Dispatched(conns[k]).invoked)
    /\ LET from == IF Busy(k) = {} THEN k ELSE CHOOSE j \in Busy(k) : TRUE
           r == Dispatched(conns[from])
       IN  conns' = [conns EXCEPT ![k].phase = "returned",
                                  ![k].outcome = r.outcome,
                                  ![k].content = r.content]
    /\ UNCHANGED <<env, restricted, pc, ctx, started, catalogs, last>>

\* The dispatch on connection k has made its backend invocations and
\* call_tool returns the response.
Return(k) ==
    /\ conns[k].phase = "dispatching"
    /\ conns[k].done = Len(Dispatched(conns[k]).invoked)
    /\ LET r == Dispatched(conns[k])
       IN  conns' = [conns EXCEPT ![k].phase = "returned",
                                  ![k].outcome = r.outcome,
                                  ![k].content = r.content]
    /\ UNCHANGED <<env, restricted, pc, ctx, started, catalogs, last>>

\* The transport of connection k sends the response to its client.
Send(k) ==
    /\ conns[k].phase = "returned"
    /\ conns' = [conns EXCEPT ![k] = Idle]
    /\ UNCHANGED <<env, restricted, pc, ctx, started, catalogs, last>>

Next == Startup \/ ListTools \/ CallTool \/ Reply
NextEnv == Startup \/ ListTools
NextServe ==
    \/ Startup
    \/ \E k \in Connections : Receive(k)
    \/ \E k \in Connections : Invoke(k)
    \/ \E k \in Connections : Return(k)
    \/ \E k \in Connections : Send(k)

Spec == Init /\ [][Next]_vars
SpecEnv == InitEnv /\ [][NextEnv]_vars
\* Each backend invocation returns or raises, and the synchronous code
\* between invocations runs to its end once the task is scheduled.
SpecServe ==
    /\ InitServe
    /\ [][NextServe]_vars
    /\ \A k \in Connections : WF_vars(Invoke(k)) /\ WF_vars(Return(k))

(***************************************************************************)
(* Properties.                                                             *)
(***************************************************************************)
\* A call has run to its end and its response is in `last`.
Called == last # NoCall
\* The text of the first content block of that response.
LastText == last.content[1].text
\* The latest catalog returned.
Listed == catalogs # <<>>
Catalog == catalogs[Len(catalogs)]
ReadOnlyPiece == "not available in read-only mode"

\* C1: whatever the tool name, the arguments (a mapping or not), the
\* context, the read-only flag and the backend's behaviour, call_tool
\* returns at least one content block, every block a text block; nothing
\* is raised out of it.
C1_AlwaysTextBlock ==
    Called =>
        /\ last.outcome = "returned"
        /\ Len(last.content) >= 1
        /\ \A i \in 1..Len(last.content) : last.content[i].type = "text"

\* C1 witness: a backend method raised in a branch with no try of its own,
\* and the call still returned a block.
C1_Witness ==
    /\ Called
    /\ last.name \in Registered \ LocalCatch
    /\ last.invoked # <<>>
    /\ last.world.beh[1] = "raise"
    /\ last.name # "confluence_search"
    /\ last.outcome = "returned"
    /\ LastText[1] = "Error: "

\* C2 (as claimed): with the read-only flag set and the handle present, a
\* call of a mutating tool returns without calling any backend method.
C2_NoBackendWhenRestricted ==
    (Called /\ restricted /\ Mutating(last.name) /\ ctx[ServiceOf(last.name)])
        => last.invoked = <<>>

\* C3 (as claimed): with the read-only flag set and the handle present, the
\* block returned for a mutating tool holds "not available in read-only
\* mode" and is not the "Error: ..." block of the top-level except.  Stated
\* for the mutating tools whose branch tests read_only; the two sprint
\* tools, whose branch does not, are C2's case.
C3_ReadOnlyMessage ==
    (/\ Called /\ restricted /\ ctx[ServiceOf(last.name)]
     /\ Mutating(last.name) /\ last.name \in ReadOnlyChecked)
        => /\ last.outcome = "returned"
           /\ Contains(LastText, ReadOnlyPiece)
           /\ LastText[1] # "Error: "

\* C4 (as claimed): no catalog returned while the read-only flag is set
\* holds a mutating tool.
C4_NoMutatingToolWhenRestricted ==
    restricted =>
        \A k \in 1..Len(catalogs) :
            \A i \in 1..Len(catalogs[k]) : ~Mutating(catalogs[k][i])

\* C5: a call whose name is no registered tool's is answered with the
\* unknown-tool error naming that tool, in every context and for both
\* values of the read-only flag, and calls no backend method.
C5_UnknownTool ==
    (Called /\ last.name \notin Registered)
        => /\ Len(last.content) = 1
           /\ LastText = <<"Error: ", "Unknown tool: ", last.name>>
           /\ last.invoked = <<>>

\* C5 witness: an unregistered name was called with both handles present.
C5_Witness ==
    /\ Called
    /\ last.name \notin Registered
    /\ ctx["confluence"] /\ ctx["jira"]
    /\ last.arguments.mapping

C7_ServiceNotConfigured ==
    (Called /\ last.name \in Registered /\ ~ctx[ServiceOf(last.name)])
        => /\ LastText = <<"Error: ">> \o NotConfiguredText(ServiceOf(last.name))
           /\ last.invoked = <<>>

\* C8: when neither service's URL is set, whatever the other variables and
\* the read-only flag are, every catalog returned after startup is empty.
C8_NoUrlEmptyCatalog ==
    (env["confluence"].url = "unset" /\ env["jira"].url = "unset")
        => /\ \A k \in 1..Len(catalogs) : catalogs[k] = <<>>
           /\ pc = "serving" => list_tools(ctx, restricted) = <<>>

\* C8 witness: a catalog was returned with no URL set although credentials
\* of both services are.
C8_Witness ==
    /\ Listed
    /\ env["confluence"].url = "unset" /\ env["jira"].url = "unset"
    /\ env["confluence"].username /\ env["confluence"].api_token
    /\ env["jira"].personal_token

\* The catalog lists no mutating tool before a tool that only reads.
ReadsFirst(cat) ==
    \A i, j \in 1..Len(cat) :
        (i < j) => ~(Mutating(cat[i]) /\ ~Mutating(cat[j]))

\* C9 (as claimed): when exactly one service is configured, every catalog
\* holds that service's tools only, its read tools before its write tools,
\* and is the same on every request.
C9_OneServiceReadsFirst ==
    \A s \in Services :
        (/\ get_available_services(env)[s]
         /\ \A t \in Services \ {s} : ~get_available_services(env)[t])
        => \A k \in 1..Len(catalogs) :
              /\ \A i \in 1..Len(catalogs[k]) : ServiceOf(catalogs[k][i]) = s
              /\ ReadsFirst(catalogs[k])
              /\ catalogs[k] = catalogs[1]

\* C10: with both handles present every Confluence tool comes before every
\* Jira tool in the catalog, for both values of the read-only flag, and the
\* catalogs of successive requests are the same sequence of names.
C10_ConfluenceBeforeJira ==
    (ctx["confluence"] /\ ctx["jira"])
        => \A k \in 1..Len(catalogs) :
              /\ \A i, j \in 1..Len(catalogs[k]) :
                    (/\ ServiceOf(catalogs[k][i]) = "confluence"
                     /\ ServiceOf(catalogs[k][j]) = "jira") => i < j
              /\ catalogs[k] = catalogs[1]

\* C10 witness: two catalog requests were answered with both handles
\* present and the write tools listed.
C10_Witness ==
    /\ ctx["confluence"] /\ ctx["jira"]
    /\ ~restricted
    /\ Len(catalogs) >= 2
    /\ \E i \in 1..Len(Catalog) : ServiceOf(Catalog[i]) = "jira"
    /\ \E i \in 1..Len(Catalog) : ServiceOf(Catalog[i]) = "confluence"

\* The name is listed in the catalog.
InCatalog(cat, name) == \E i \in 1..Len(cat) : cat[i] = name

\* C11 (as claimed): for a present service, every tool of it whose backend
\* method only reads and that the catalog of the other flag value lists is
\* in each catalog returned: the flag removes mutating tools only.
C11_ReadToolsUnaffected ==
    \A k \in 1..Len(catalogs) :
        \A name \in Registered :
            (/\ ctx[ServiceOf(name)]
             /\ ~Mutating(name)
             /\ InCatalog(list_tools(ctx, ~restricted), name))
                => InCatalog(catalogs[k], name)

\* The detector's report for the service, as server_lifespan read it.
Reported(s) == started.services[s]
\* Both credentials of the basic style are set.
Basic(e) == e.username /\ e.api_token

\* C12 (as claimed): for each service whose URL is set and self-hosted, the
\* detector reports it configured exactly when its personal access token
\* is set or both its username and its API token are.
C12_SelfHostedEitherCredential ==
    pc = "serving" =>
        \A s \in Services :
            env[s].url = "server"
                => (Reported(s) <=> (env[s].personal_token \/ Basic(env[s])))

\* C12 (amended): with a self-hosted URL, Confluence is reported configured
\* exactly when its personal access token is set or both its username and
\* its API token are; Jira exactly when its personal access token is set.
C12_SelfHostedPerService ==
    pc = "serving" =>
        /\ env["confluence"].url = "server"
              => (Reported("confluence")
                    <=> (env["confluence"].personal_token
                            \/ Basic(env["confluence"])))
        /\ env["jira"].url = "server"
              => (Reported("jira") <=> env["jira"].personal_token)

\* C12 witness: both URLs self-hosted, both services with username and API
\* token and no personal access token; Confluence is reported, Jira is not.
C12_Witness ==
    /\ pc = "serving"
    /\ \A s \in Services :
          /\ env[s].url = "server"
          /\ Basic(env[s]) /\ ~env[s].personal_token
    /\ Reported("confluence") /\ ~Reported("jira")

\* C13: a service whose URL is not set is reported unconfigured; a service
\* whose URL is a cloud URL is reported configured exactly when its
\* username and its API token are both set, whatever its personal access
\* token; the report is a pair of booleans for every environment.
C13_UnsetAndCloud ==
    pc = "serving" =>
        /\ started.services \in [Services -> BOOLEAN]
        /\ \A s \in Services :
              /\ env[s].url = "unset" => ~Reported(s)
              /\ env[s].url = "cloud" => (Reported(s) <=> Basic(env[s]))

\* C13 witness: a cloud URL with only the personal access token set is
\* reported unconfigured, next to a service with credentials and no URL.
C13_Witness ==
    /\ pc = "serving"
    /\ env["confluence"].url = "cloud"
    /\ env["confluence"].personal_token /\ ~env["confluence"].username
    /\ ~Reported("confluence")
    /\ env["jira"].url = "unset" /\ env["jira"].personal_token
    /\ ~Reported("jira")

\* C14: a handle is in the yielded context exactly when the detector
\* reported its service and the construction succeeded; the construction
\* of a service is attempted exactly when it was reported, whatever
\* happened to the other service, so a failure leaves only its own handle
\* absent; and from every state before startup the context can be yielded.
C14_StartupPerService ==
    /\ pc = "boot" => ENABLED Startup
    /\ pc = "serving" =>
          \A s \in Services :
              /\ ctx[s] <=> (Reported(s) /\ started.construction[s] = "ok")
              /\ started.construction[s] # "skipped" <=> Reported(s)
              /\ Reported(s) = get_available_services(env)[s]

\* C14 witness: both services were reported, the Confluence construction
\* failed and the Jira one succeeded; the context holds the Jira handle
\* only.
C14_Witness ==
    /\ pc = "serving"
    /\ Reported("confluence") /\ Reported("jira")
    /\ started.construction["confluence"] = "failed"
    /\ started.construction["jira"] = "ok"
    /\ ~ctx["confluence"] /\ ctx["jira"]

\* The argument was left out of the call's mapping.
Omitted(f) == last.arguments.mapping /\ f \notin DOMAIN last.arguments.kv
\* The argument as the caller gave it.
Supplied(f) == last.arguments.kv[f]

\* C15: in every backend call of a tool whose schema declares the maximum
\* 50 for "limit", the limit passed is at most 50; it is 50 when the caller
\* gave a number or a decimal string above 50, the caller's value when that
\* is at most 50, the schema's default when the argument was left out, and
\* that default is 10 for every such tool but the child-page listing.
C15_LimitClamped ==
    (Called /\ SchemaMaximum(last.name) = 50) =>
        \A k \in 1..Len(last.invoked) :
            LET limit == last.invoked[k].fwd.limit.n
            IN  /\ limit <= SchemaMaximum(last.name)
                /\ Omitted("limit")
                      => /\ limit = SchemaOptional(last.name).limit.n
                         /\ last.name # "confluence_get_page_children"
                               => limit = 10
                /\ ~Omitted("limit")
                      => limit = Min(IntOf(Supplied("limit")), 50)

\* C15 witness: the three cases: the decimal string "1000" and the number
\* 1000 were clamped to 50, and a left-out limit became 10.
C15_Witness ==
    /\ Called
    /\ SchemaMaximum(last.name) = 50
    /\ last.invoked # <<>>
    /\ \/ /\ ~Omitted("limit") /\ Supplied("limit") = S(<<"1000">>)
          /\ last.invoked[1].fwd.limit = N(50)
          /\ last.name = "jira_search"
       \/ /\ ~Omitted("limit") /\ Supplied("limit") = N(1000)
          /\ last.invoked[1].fwd.limit = N(50)
          /\ last.name = "confluence_search"
       \/ /\ Omitted("limit")
          /\ last.invoked[1].fwd.limit = N(10)
          /\ last.name = "jira_get_board_issues"

\* C16 (as claimed): in every backend call of a tool that only reads, each
\* argument the schema does not require and the caller left out is passed
\* with the default the schema declares for it, and as None when the schema
\* declares none.  (expand of the child-page listing is left aside when
\* include_content is given: the branch then derives it.)
C16_DeclaredDefaults ==
    (Called /\ last.name \in Registered /\ ~Mutating(last.name)) =>
        \A k \in 1..Len(last.invoked) :
            \A f \in DOMAIN SchemaOptional(last.name)
                        \cap DOMAIN last.invoked[k].fwd :
                (Omitted(f) /\ Omitted("include_content"))
                    => last.invoked[k].fwd[f] = SchemaOptional(last.name)[f]

\* The content search was called and reached the backend.
Searched ==
    Called /\ last.name = "confluence_search" /\ last.invoked # <<>>
\* The query text of that call, and the query of its first backend call.
QueryText == Get(last.arguments, "query", S(<<>>)).s
FirstQuery == last.invoked[1].fwd.query
\* The tokens the claim lists.
C17_Tokens == {"=", "~", ">", "<", " AND ", " OR ", "currentUser()"}
HasToken(text) == \E x \in C17_Tokens : Contains(text, x)

\* C17 (as claimed): the first query sent to the backend is the site-search
\* form around the query text exactly when the text holds none of the
\* listed tokens; a text that holds one is sent unchanged.
C17_SiteSearchIffNoToken ==
    Searched =>
        /\ FirstQuery = S(SiteSearch(QueryText)) <=> ~HasToken(QueryText)
        /\ HasToken(QueryText) => FirstQuery = S(QueryText)

\* C17 (amended): the first query is the site-search form exactly when the
\* text is not empty and holds none of the listed tokens; an empty (or
\* left-out) query, like a text that holds a token, is sent unchanged.
C17_SiteSearchIffFreeText ==
    Searched =>
        /\ FirstQuery = S(SiteSearch(QueryText))
              <=> (QueryText # <<>> /\ ~HasToken(QueryText))
        /\ (QueryText = <<>> \/ HasToken(QueryText))
              => FirstQuery = S(QueryText)

\* C17 witness: an empty query was sent to the backend as it is.
C17_Witness ==
    /\ Searched
    /\ QueryText = <<>>
    /\ Len(last.invoked) = 1
    /\ FirstQuery = S(<<>>)

\* C18: a free-text search whose first (site-search) backend call raises
\* makes one more backend call, in the text-search form around the same
\* query text and with the same limit and space filter, and a result of
\* that call is returned as the text a first-try result is returned as;
\* a first call that does not raise, and a query that is empty or holds a
\* token, is never followed by a second call; there is never a third.
C18_FallbackOnce ==
    Searched =>
        /\ Len(last.invoked) <= 2
        /\ Len(last.invoked) = 2
              <=> /\ QueryText # <<>> /\ ~HasToken(QueryText)
                  /\ Raises(last.world.beh[1])
        /\ Len(last.invoked) = 2
              => /\ FirstQuery = S(<<"siteSearch ~ \"">> \o QueryText \o <<"\"">>)
                 /\ last.invoked[2].op = last.invoked[1].op
                 /\ last.invoked[2].fwd
                      = [query |-> S(<<"text ~ \"">> \o QueryText \o <<"\"">>),
                         limit |-> last.invoked[1].fwd.limit,
                         spaces_filter |-> Get(last.arguments, "spaces_filter", None)]
                 /\ last.invoked[1].fwd.spaces_filter
                      = Get(last.arguments, "spaces_filter", None)
        /\ last.world.beh[Len(last.invoked)] = "ok" => LastText = <<"{json}">>
        /\ last.world.beh[Len(last.invoked)] # "ok" => LastText[1] = "Error: "

\* C18 witness: the site search raised, the text search was made with the
\* clamped limit and the caller's space filter, and its result was returned.
C18_Witness ==
    /\ Searched
    /\ last.world.beh = <<"raise", "ok">>
    /\ Len(last.invoked) = 2
    /\ last.invoked[2].fwd.limit = N(50)
    /\ IsStr(last.invoked[2].fwd.spaces_filter)
    /\ LastText = <<"{json}">>

\* The batch-create tool was called with the Jira handle present, the
\* read-only flag off, and a string for issues.
BatchOfString ==
    /\ Called /\ last.name = "jira_batch_create_issues"
    /\ ctx["jira"] /\ ~restricted
    /\ last.arguments.mapping
    /\ "issues" \in DOMAIN last.arguments.kv
    /\ IsStr(Supplied("issues"))

\* C19 (as claimed): an issues string that is valid JSON reaches the
\* backend parsed; one that is not valid JSON is answered "Invalid JSON in
\* issues" and no backend method is called.
C19_IssuesParsedOrRejected ==
    BatchOfString =>
        IF JsonValid(Supplied("issues"))
        THEN /\ Len(last.invoked) = 1
             /\ last.invoked[1].fwd.issues = JsonLoads(Supplied("issues").s)
        ELSE /\ last.invoked = <<>>
             /\ LastText = <<"Error: ", "Invalid JSON in ", "issues">>

\* The issue-update tool was called past its handle and read-only checks
\* with an attachments argument and fields that parse to JSON objects.
UpdateWithAttachments ==
    /\ Called /\ last.name = "jira_update_issue"
    /\ ctx["jira"] /\ ~restricted
    /\ last.arguments.mapping
    /\ "attachments" \in DOMAIN last.arguments.kv
    /\ \A f \in {"fields", "additional_fields"} :
          f \in DOMAIN last.arguments.kv => Supplied(f) = S(JsonObject)

\* The paths an attachments argument names, in the order it names them.
C20_Paths(v) ==
    IF IsList(v) THEN v.l
    ELSE IF v.s = JsonPathArray THEN <<"/tmp/a", "/tmp/b">>
    ELSE IF v.s = JsonPathString THEN <<"/tmp/a">>
    ELSE SelectSeq(v.s, LAMBDA piece : piece \notin {",", " "})

JsonFieldsReached ==
    /\ Called
    /\ last.name \in {"jira_create_issue", "jira_update_issue",
                      "jira_transition_issue"}
    /\ ctx["jira"] /\ ~restricted
    /\ last.arguments.mapping
    /\ FirstMissing(last.name, last.arguments) = 0

\* C21 (as claimed): when the first JSON-bearing field of the call whose
\* value is not valid JSON is f, the answer is "Invalid JSON in f" and no
\* backend method is called.
C21_InvalidJsonNamed ==
    JsonFieldsReached =>
        \A i \in 1..Len(JsonFields(last.name)) :
            LET f == JsonFields(last.name)[i]
            IN  (/\ ~Omitted(f) /\ ~JsonValid(Supplied(f))
                 /\ \A j \in 1..(i - 1) :
                       \/ Omitted(JsonFields(last.name)[j])
                       \/ JsonValid(Supplied(JsonFields(last.name)[j])))
                => /\ last.invoked = <<>>
                   /\ LastText = <<"Error: ", "Invalid JSON in ", f>>

\* A registered tool was called with a mapping, its handle present and the
\* read-only flag off.
Served ==
    /\ Called /\ last.name \in Registered
    /\ ctx[ServiceOf(last.name)] /\ ~restricted
    /\ last.arguments.mapping

\* C22 (as claimed): a call that leaves out a field of the tool's schema
\* "required" list is answered with an error text that names a left-out
\* field, and no backend method is called.
C22_RequiredFieldNamed ==
    (Served /\ \E f \in SchemaRequired(last.name) : Omitted(f))
        => /\ last.invoked = <<>>
           /\ LastText[1] = "Error: "
           /\ \E f \in SchemaRequired(last.name) :
                 Omitted(f) /\ Contains(LastText, f)

\* The text m occurs in text, piece for piece.
ContainsText(text, m) ==
    \E i \in 0..(Len(text) - Len(m)) : SubSeq(text, i + 1, i + Len(m)) = m

NumericIdAdvice == "Please use the numeric ID value from jira_get_transitions."

\* The i-th backend call of the last tool call raised.
Raised(i) == Called /\ i \in 1..Len(last.invoked) /\ Raises(last.world.beh[i])
TransitionMismatch(i) ==
    last.name = "jira_transition_issue" /\ last.world.beh[i] = "raise_id"

\* C23 (as claimed): whenever a backend call raises with message m, the
\* response is one text block containing m verbatim, except for a transition
\* failing with the identifier type mismatch, whose text tells the caller to
\* use the numeric ID from the transitions listing.
C23_BackendMessageKept ==
    \A i \in 1..2 :
        Raised(i) =>
            /\ Len(last.content) = 1
            /\ IF TransitionMismatch(i)
               THEN Contains(LastText, NumericIdAdvice)
               ELSE ContainsText(LastText, RaisedText(last.world.beh[i]))

\* The site search failed and the text search was tried after it.
FellBack(i) ==
    last.name = "confluence_search" /\ i < Len(last.invoked)
JsonErrorBlock == {"confluence_get_page_children", "confluence_delete_page"}

\* C23 (amended): whenever a backend call raises with message m, the
\* response is one text block; it contains m verbatim, except that a
\* transition failing with the identifier type mismatch is told to use the
\* numeric ID, that the message of a failed site search is dropped when the
\* text search is tried after it, and that the child-page listing and the
\* page deletion carry m as a JSON string, with its quotes escaped.
C23_BackendMessageKeptButFor ==
    \A i \in 1..2 :
        Raised(i) =>
            /\ Len(last.content) = 1
            /\ CASE TransitionMismatch(i)
                      -> Contains(LastText, NumericIdAdvice)
                 [] FellBack(i) -> TRUE
                 [] last.name \in JsonErrorBlock
                      -> ContainsText(LastText,
                                      JsonEscape(RaisedText(last.world.beh[i])))
                 [] OTHER
                      -> ContainsText(LastText, RaisedText(last.world.beh[i]))

C23_Witness ==
    /\ Raised(1)
    /\ last.name = "jira_update_issue"
    /\ last.world.beh[1] = "raise"
    /\ LastText = <<"Error updating issue ">> \o BackendText


\* The handles server_lifespan yielded.
Yielded == [s \in Services |-> started.construction[s] = "ok"]

\* C24: after any sequence of catalog requests and tool calls (succeeding,
\* failing or rejected) the context holds exactly the handles it was yielded
\* with at startup and the restricted-mode value is unchanged: no step of
\* the serving process changes either.
C24_ContextReadOnly ==
    /\ [](pc = "serving" => ctx = Yielded)
    /\ [][pc = "serving" => ctx' = ctx /\ restricted' = restricted]_vars

C24_Witness ==
    /\ Listed
    /\ Called
    /\ last.name = "jira_update_issue"
    /\ last.invoked # <<>>
    /\ last.world.beh[1] = "raise"
    /\ ctx = Yielded
    /\ ctx["jira"]

Dispatching(k) == conns[k].phase = "dispatching"
Returned(k) == conns[k].phase = "returned"

ErrorText(name, e) ==
    IF name \in LocalCatch THEN CaughtText(name, e) ELSE <<"Error: ">> \o e

InvocationBound(name) == IF name = "confluence_search" THEN 2 ELSE 1

\* The i-th backend invocation of the dispatch on connection k raised.
Faulted(k, i) ==
    i \in 1..Len(conns[k].invoked) /\ Raises(conns[k].world.beh[i])
EndsInError(k, i) ==
    /\ Len(conns[k].content) = 1
    /\ conns[k].content[1].text
         = ErrorText(conns[k].name, RaisedText(conns[k].world.beh[i]))

Fallback(k, i) == conns[k].name = "confluence_search" /\ i = 1

C26_RequiredIsExact ==
    \A k \in 1..Len(catalogs) :
        \A i \in 1..Len(catalogs[k]) :
            LET name == catalogs[k][i]
            IN  /\ BackendTarget(name) \subseteq SchemaRequired(name)
                /\ SchemaRequired(name) \cap SchemaDefaulted(name) = {}

\* A mutating tool was called.
MutatingCalled == Called /\ Mutating(last.name)

\* C27 (as claimed): a mutating tool's dispatch tests the handle before the
\* restricted mode and the restricted mode before the arguments: with the
\* handle absent the answer is "<Service> is not configured." whatever the
\* restricted mode is, and with the handle present and the restricted mode
\* on the arguments are not looked at: no backend method is called and the
\* answer is the one given to any other arguments.
C27_CheckOrder ==
    MutatingCalled =>
        /\ ~ctx[ServiceOf(last.name)] =>
              LastText
                = <<"Error: ">> \o NotConfiguredText(ServiceOf(last.name))
        /\ (ctx[ServiceOf(last.name)] /\ restricted) =>
              /\ last.invoked = <<>>
              /\ last.content
                   = call_tool(last.name, NotMapping, ctx, restricted,
                               last.world).content

\* The answers by which the router turns a call away.
TurnedAway(name) ==
    {<<"Error: ">> \o UnknownToolText(name),
     <<"Error: ">> \o NotConfiguredText("confluence"),
     <<"Error: ">> \o NotConfiguredText("jira"),
     ReadOnlyText(name),
     <<"Error: ">> \o PositionalTextContentError}

\* The called tool is in the catalog list_tools returns in this state.
Advertised == Called /\ InCatalog(list_tools(ctx, restricted), last.name)

\* C28: whatever the context and the restricted mode, a tool that is in the
\* catalog list_tools returns for them is dispatched: call_tool with its
\* name is not answered with the unknown-tool error, the not-configured
\* error or the read-only rejection.
C28_CatalogDispatchable ==
    Advertised => LastText \notin TurnedAway(last.name)

C28_Witness ==
    /\ Advertised
    /\ restricted
    /\ last.name = "jira_create_sprint"
    /\ last.invoked # <<>>
    /\ LastText \notin TurnedAway(last.name)

\* C29 (as claimed): whatever the context and the restricted mode, a call
\* whose name is not in the catalog list_tools returns for them calls no
\* backend method.
C29_OnlyCatalogReachesBackend ==
    (Called /\ ~Advertised) => last.invoked = <<>>

====
